---- MODULE Spec2Model ----
(***************************************************************************)
(* Utils::Random::rand of src/base/utils/random.cpp: the three build-time  *)
(* variants of RandomLayer (Windows ProcessPrng, Linux getrandom, generic  *)
(* /dev/urandom), the function-local static instance of rand() and the     *)
(* std::uniform_int_distribution that maps raw draws into [min, max].      *)
(*                                                                         *)
(* Draw width is reduced: result_type holds the values 0..RawMax instead of *)
(* 0..2^32-1; a buffer of it still has SizeofBuf = 4 bytes.                *)
(***************************************************************************)
EXTENDS Integers, FiniteSets, Sequences, TLC

\* ---------------------------------------------------------------- bounds
NumThreads == 2
MaxArg == 1
RawMax == 3

\* ------------------------------------------------------ program constants
RETRY_MAX == 3
SizeofBuf == 4

Threads == 1..NumThreads
\* no value, and no thread
NoVal == 0 - 1
NoThread == NoVal

\* RandomLayer::min() and RandomLayer::max(): numeric_limits of result_type
RandomLayerMin == 0
RandomLayerMax == RawMax

\* The arguments the callers of the concurrent specification use (the ranges
\* [0, 0], [0, MaxArg] and [MaxArg, MaxArg]), and all the arguments a
\* result_type can hold.
SmallArgs == {0, MaxArg}
AllArgs == RandomLayerMin..RandomLayerMax

\* What a zeroed buffer can hold after an OS call wrote n of its SizeofBuf
\* bytes: still zero when nothing was written, any value otherwise.
Written(n) == IF n <= 0 THEN {0} ELSE AllArgs

\* ------------------------------------------- std::uniform_int_distribution
\* operator()(urng, param) of the standard library for a generator whose
\* range is at least the requested one: downscaling with rejection.
urngrange == RandomLayerMax - RandomLayerMin
urange(a, b) == b - a
uerange(a, b) == urange(a, b) + 1
scaling(a, b) == urngrange \div uerange(a, b)
past(a, b) == uerange(a, b) * scaling(a, b)

\* The value the distribution returns for a raw value of the generator, or
\* NoVal when it rejects the raw value and draws again.
uniformModulo(a, b, raw) ==
    IF urngrange > urange(a, b)
    THEN ((raw - RandomLayerMin) % uerange(a, b)) + a
    ELSE (raw - RandomLayerMin) + a

uniform(a, b, raw) ==
    IF urngrange > urange(a, b)
    THEN IF (raw - RandomLayerMin) >= past(a, b)
         THEN NoVal
         ELSE ((raw - RandomLayerMin) \div scaling(a, b)) + a
    ELSE (raw - RandomLayerMin) + a

\* ------------------------------------------------------------------ state
VARIABLES
    platform,       \* the variant the build selected (#if Q_OS_WIN / Q_OS_LINUX / else)
    guard,          \* initialization guard of `static RandomLayer layer`
    ctorRuns,       \* how many times a RandomLayer constructor body has run
    m_processPrng,  \* Windows: the resolved function pointer
    m_randDev,      \* generic: the FILE * of /dev/urandom
    proc,           \* the process: running, fatal (qFatal) or exited
    fatal,          \* the qFatal message that ended the process
    pc,             \* per thread: where it is in rand()
    min,            \* per thread: argument min of the call
    max,            \* per thread: argument max of the call
    i,              \* per thread: loop counter of the Linux operator()
    ret,            \* per thread: value the last call returned
    os              \* the OS entropy call the last step made (NoCall: none)

vars == <<platform, guard, ctorRuns, m_processPrng, m_randDev, proc, fatal,
          pc, min, max, i, ret, os>>

Platforms == {"Q_OS_WIN", "Q_OS_LINUX", "generic"}

NoCall == [thread |-> NoThread, n |-> 0, data |-> NoVal, val |-> NoVal]

Init ==
    /\ platform \in Platforms
    /\ guard = "uninit"
    /\ ctorRuns = 0
    /\ m_processPrng = "null"
    /\ m_randDev = "null"
    /\ proc = "running"
    /\ fatal = "none"
    /\ pc = [t \in Threads |-> "idle"]
    /\ min = [t \in Threads |-> 0]
    /\ max = [t \in Threads |-> 0]
    /\ i = [t \in Threads |-> 0]
    /\ ret = [t \in Threads |-> NoVal]
    /\ os = NoCall

\* qFatal(msg): the process is terminated
qFatal(msg) ==
    /\ proc' = "fatal"
    /\ fatal' = msg

\* ------------------------------------------------------------- rand entry
\* `static RandomLayer layer;` with the guard the compiler emits for a
\* function-local static: a thread that finds the object constructed skips
\* the initialization, the first thread to arrive constructs it, and a
\* thread that arrives during the construction waits.
GuardAcquireUnguarded(g) == IF g = "done" THEN "skip" ELSE "construct"

GuardAcquire(g) ==
    IF g = "done" THEN "skip"
    ELSE IF g = "uninit" THEN "construct"
    ELSE "wait"

EnterLayer(t) ==
    LET r == GuardAcquire(guard) IN
    /\ pc' = [pc EXCEPT ![t] = IF r = "skip" THEN "draw"
                               ELSE IF r = "construct" THEN "ctor"
                               ELSE "static"]
    /\ guard' = IF r = "construct" THEN "constructing" ELSE guard

\* A thread calls rand(a, b) with a <= b and reaches the static.
Call(t, a, b) ==
    /\ proc = "running"
    /\ pc[t] \in {"idle", "returned"}
    /\ a <= b
    /\ min' = [min EXCEPT ![t] = a]
    /\ max' = [max EXCEPT ![t] = b]
    /\ ret' = [ret EXCEPT ![t] = NoVal]
    /\ EnterLayer(t)
    /\ os' = NoCall
    /\ UNCHANGED <<platform, ctorRuns, m_processPrng, m_randDev, proc, fatal, i>>

\* A thread that waited at the static goes on.
StaticInit(t) ==
    /\ proc = "running"
    /\ pc[t] = "static"
    /\ GuardAcquire(guard) # "wait"
    /\ EnterLayer(t)
    /\ os' = NoCall
    /\ UNCHANGED <<platform, ctorRuns, m_processPrng, m_randDev, proc, fatal,
                   min, max, i, ret>>

\* ----------------------------------------------------------- constructors
\* `if (!m_processPrng)` of the Windows constructor
LoadFailedNever(p) == FALSE

LoadFailed(p) == p = "null"

\* RandomLayer() of the Windows variant: resolves ProcessPrng
RandomLayerWin(t) ==
    /\ platform = "Q_OS_WIN"
    /\ proc = "running"
    /\ pc[t] = "ctor"
    /\ ctorRuns' = ctorRuns + 1
    /\ \E p \in {"null", "resolved"} :
          /\ m_processPrng' = p
          /\ IF LoadFailed(p)
             THEN /\ qFatal("Failed to load ProcessPrng().")
                  /\ UNCHANGED <<guard, pc>>
             ELSE /\ guard' = "done"
                  /\ pc' = [pc EXCEPT ![t] = "draw"]
                  /\ UNCHANGED <<proc, fatal>>
    /\ os' = NoCall
    /\ UNCHANGED <<platform, m_randDev, min, max, i, ret>>

\* RandomLayer() of the Linux variant: empty
RandomLayerLinux(t) ==
    /\ platform = "Q_OS_LINUX"
    /\ proc = "running"
    /\ pc[t] = "ctor"
    /\ ctorRuns' = ctorRuns + 1
    /\ guard' = "done"
    /\ pc' = [pc EXCEPT ![t] = "draw"]
    /\ os' = NoCall
    /\ UNCHANGED <<platform, m_processPrng, m_randDev, proc, fatal, min, max, i, ret>>

\* `if (!m_randDev)` of the generic constructor
OpenFailedNever(f) == FALSE

OpenFailed(f) == f = "null"

\* RandomLayer() of the generic variant: fopen("/dev/urandom", "rb")
RandomLayerGeneric(t) ==
    /\ platform = "generic"
    /\ proc = "running"
    /\ pc[t] = "ctor"
    /\ ctorRuns' = ctorRuns + 1
    /\ \E f \in {"null", "open"} :
          /\ m_randDev' = f
          /\ IF OpenFailed(f)
             THEN /\ qFatal("Failed to open /dev/urandom.")
                  /\ UNCHANGED <<guard, pc>>
             ELSE /\ guard' = "done"
                  /\ pc' = [pc EXCEPT ![t] = "draw"]
                  /\ UNCHANGED <<proc, fatal>>
    /\ os' = NoCall
    /\ UNCHANGED <<platform, m_processPrng, min, max, i, ret>>

\* ~RandomLayer() of the generic variant: fclose(m_randDev). Closing a handle
\* that is not open (null, or closed before) is undefined.
RandomLayerDtor(f) == IF f = "open" THEN "closed" ELSE "invalid_close"

\* ------------------------------------------------------------- rand, tail
\* `std::uniform_int_distribution<uint32_t> uniform(min, max);`
UniformParamsFromZero(a, b) == <<0, b>>

UniformParams(a, b) == <<a, b>>

\* `return uniform(layer);` for one raw value of the layer: the value rand
\* returns, or NoVal when the distribution calls the layer again.
RandReturnRaw(a, b, raw) == raw

RandReturn(a, b, raw) == uniform(UniformParams(a, b)[1], UniformParams(a, b)[2], raw)

\* What the thread does with the value operator() returned.
Deliver(t, raw) ==
    LET r == RandReturn(min[t], max[t], raw) IN
    /\ i' = [i EXCEPT ![t] = 0]
    /\ IF r = NoVal
       THEN UNCHANGED <<pc, ret>>
       ELSE /\ pc' = [pc EXCEPT ![t] = "returned"]
            /\ ret' = [ret EXCEPT ![t] = r]

\* The record of an OS entropy call: the caller, the bytes read (or -1) and,
\* when probed, the content of a buffer the OS filled completely and the
\* value operator() returned. A partly written buffer goes away with the
\* loop iteration and is not recorded.
OsCall(t, n, probe, buf, val) ==
    [thread |-> t, n |-> n,
     data |-> IF probe /\ n = SizeofBuf THEN buf ELSE NoVal,
     val |-> IF probe THEN val ELSE NoVal]

\* ------------------------------------------------------ Windows operator()
\* `if (!result)`
PrngFailedNever(result) == FALSE

PrngFailed(result) == ~result

DrawWin(t, probe) ==
    /\ platform = "Q_OS_WIN"
    /\ proc = "running"
    /\ pc[t] = "draw"
    /\ IF m_processPrng = "resolved"
       THEN \E result \in BOOLEAN :
              LET n == IF result THEN SizeofBuf ELSE NoVal IN
              IF PrngFailed(result)
              THEN /\ qFatal("ProcessPrng() failed.")
                   /\ os' = OsCall(t, n, probe, NoVal, NoVal)
                   /\ UNCHANGED <<pc, i, ret>>
              ELSE \E buf \in Written(IF result THEN SizeofBuf ELSE 0) :
                   /\ Deliver(t, buf)
                   /\ os' = OsCall(t, n, probe, buf, buf)
                   /\ UNCHANGED <<proc, fatal>>
       ELSE \* a call through a null function pointer: the process crashes
            /\ qFatal("call through a null pointer")
            /\ os' = OsCall(t, NoVal, probe, NoVal, NoVal)
            /\ UNCHANGED <<pc, i, ret>>
    /\ UNCHANGED <<platform, guard, ctorRuns, m_processPrng, m_randDev, min, max>>

\* -------------------------------------------------------- Linux operator()
\* `i < RETRY_MAX` of the for loop
LoopContinuesOffByOne(k) == k <= RETRY_MAX

LoopContinues(k) == k < RETRY_MAX

\* `++i` of the for loop
NextAttemptStuck(k) == k

NextAttempt(k) == k + 1

\* `if (result == sizeof(buf))`
IsSuccessAnyBytes(result) == result > 0

IsSuccess(result) == result = SizeofBuf

\* `if (result < 0)`
IsError(result) == result < 0

\* One iteration of the loop: buf = 0, one getrandom(&buf, sizeof(buf), 0)
\* and the two tests on its result; then ++i and the loop test.
DrawLinux(t, probe) ==
    /\ platform = "Q_OS_LINUX"
    /\ proc = "running"
    /\ pc[t] = "draw"
    /\ \E result \in (0 - 1)..SizeofBuf :
          IF IsSuccess(result)
          THEN \E buf \in Written(result) :
               /\ Deliver(t, buf)
               /\ os' = OsCall(t, result, probe, buf, buf)
               /\ UNCHANGED <<proc, fatal>>
          ELSE /\ os' = OsCall(t, result, probe, NoVal, NoVal)
               /\ IF IsError(result)
                  THEN /\ qFatal("getrandom() error.")
                       /\ UNCHANGED <<pc, i, ret>>
                  ELSE /\ i' = [i EXCEPT ![t] = NextAttempt(i[t])]
                       /\ IF LoopContinues(NextAttempt(i[t]))
                          THEN UNCHANGED <<proc, fatal>>
                          ELSE qFatal("getrandom() failed. Reason: too many retries.")
                       /\ UNCHANGED <<pc, ret>>
    /\ UNCHANGED <<platform, guard, ctorRuns, m_processPrng, m_randDev, min, max>>

\* ------------------------------------------------------ generic operator()
\* `fread(&buf, sizeof(buf), 1, m_randDev) != 1`
ReadFailed(items) == items # 1

DrawGeneric(t, probe) ==
    /\ platform = "generic"
    /\ proc = "running"
    /\ pc[t] = "draw"
    /\ IF m_randDev = "open"
       THEN \E got \in 0..SizeofBuf :
              LET items == IF got = SizeofBuf THEN 1 ELSE 0 IN
              IF ReadFailed(items)
              THEN /\ qFatal("Read /dev/urandom error.")
                   /\ os' = OsCall(t, got, probe, NoVal, NoVal)
                   /\ UNCHANGED <<pc, i, ret>>
              ELSE \E buf \in Written(got) :
                   /\ Deliver(t, buf)
                   /\ os' = OsCall(t, got, probe, buf, buf)
                   /\ UNCHANGED <<proc, fatal>>
       ELSE \* fread on a null or closed FILE *: the process crashes
            /\ qFatal("read of an invalid FILE")
            /\ os' = OsCall(t, NoVal, probe, NoVal, NoVal)
            /\ UNCHANGED <<pc, i, ret>>
    /\ UNCHANGED <<platform, guard, ctorRuns, m_processPrng, m_randDev, min, max>>

\* ----------------------------------------------------------- process exit
\* The process exits: the destructor of `layer` runs if its construction
\* completed, and no thread runs after it.
Exit ==
    /\ proc = "running"
    /\ proc' = "exited"
    /\ m_randDev' = IF platform = "generic" /\ guard = "done"
                    THEN RandomLayerDtor(m_randDev)
                    ELSE m_randDev
    /\ os' = NoCall
    /\ UNCHANGED <<platform, guard, ctorRuns, m_processPrng, fatal, pc, min, max, i, ret>>

\* --------------------------------------------------------- specifications
Step(t, Args, probe) ==
    \/ \E a, b \in Args : Call(t, a, b)
    \/ StaticInit(t)
    \/ RandomLayerWin(t)
    \/ RandomLayerLinux(t)
    \/ RandomLayerGeneric(t)
    \/ DrawWin(t, probe)
    \/ DrawLinux(t, probe)
    \/ DrawGeneric(t, probe)

\* Threads call rand concurrently with small arguments.
Next ==
    \/ \E t \in Threads : Step(t, SmallArgs, FALSE)
    \/ Exit

Spec == Init /\ [][Next]_vars

\* The same threads under the scheduling the code relies on: a thread inside
\* rand keeps running, and an entropy source that is read again and again
\* does not hand out rejected values forever.
Progress(t) ==
    \/ StaticInit(t)
    \/ RandomLayerWin(t)
    \/ RandomLayerLinux(t)
    \/ RandomLayerGeneric(t)
    \/ DrawWin(t, FALSE)
    \/ DrawLinux(t, FALSE)
    \/ DrawGeneric(t, FALSE)

\* the step is an OS entropy call of thread t that read the full buffer
FullRead(t) == os'.thread = t /\ os'.n = SizeofBuf

\* ... and rand returned the value made from it
AcceptedRead(t) == FullRead(t) /\ pc'[t] = "returned"

FairSpec ==
    /\ Init
    /\ [][Next]_vars
    /\ \A t \in Threads : WF_vars(Progress(t))
    /\ \A t \in Threads : ([]<><<FullRead(t)>>_vars) => ([]<><<AcceptedRead(t)>>_vars)

\* One call of rand by one thread, for every range of result_type, with the
\* delivered bytes probed: the states after Call(1, a, b) from Init.
InitProbed ==
    /\ platform \in Platforms
    /\ guard = "constructing"
    /\ ctorRuns = 0
    /\ m_processPrng = "null"
    /\ m_randDev = "null"
    /\ proc = "running"
    /\ fatal = "none"
    /\ \E a, b \in AllArgs :
          /\ a <= b
          /\ min = [t \in Threads |-> IF t = 1 THEN a ELSE 0]
          /\ max = [t \in Threads |-> IF t = 1 THEN b ELSE 0]
    /\ pc = [t \in Threads |-> IF t = 1 THEN "ctor" ELSE "idle"]
    /\ i = [t \in Threads |-> 0]
    /\ ret = [t \in Threads |-> NoVal]
    /\ os = NoCall

NextProbed ==
    \/ RandomLayerWin(1)
    \/ RandomLayerLinux(1)
    \/ RandomLayerGeneric(1)
    \/ DrawWin(1, TRUE)
    \/ DrawLinux(1, TRUE)
    \/ DrawGeneric(1, TRUE)
    \/ Exit

SpecProbed == InitProbed /\ [][NextProbed]_vars

\* ----------------------------------------------------------------- claims
InCall(t) == pc[t] \in {"static", "ctor", "draw"}

\* the step is an OS entropy call of thread t
Drew(t) == os'.thread = t

\* the step is the return of a call of thread t
Returned(t) == pc[t] # "returned" /\ pc'[t] = "returned"

\* C1: whatever the threads' draws and their interleaving, the value a call
\* rand(min, max) with min <= max returned lies in [min, max].
C1_ResultInRange ==
    \A t \in Threads :
        pc[t] = "returned" => (min[t] <= ret[t] /\ ret[t] <= max[t])

C1_Witness ==
    \E t, u \in Threads :
        /\ t # u
        /\ pc[t] = "returned" /\ min[t] < max[t] /\ ret[t] = max[t]
        /\ pc[u] = "returned" /\ min[u] < max[u] /\ ret[u] = min[u]

\* C2: rand(min, min) returns min, whatever the entropy source delivered.
C2_SingletonRange ==
    \A t \in Threads :
        (pc[t] = "returned" /\ min[t] = max[t]) => ret[t] = min[t]

C2_Witness ==
    /\ pc[1] = "returned"
    /\ min[1] = 2 /\ max[1] = 2 /\ ret[1] = 2
    /\ os.thread = 1 /\ os.data = 1

C3_Inv ==
    /\ ctorRuns <= 1
    /\ Cardinality({t \in Threads : pc[t] = "ctor"}) <= 1
    /\ (\E t \in Threads : pc[t] = "ctor") => guard = "constructing"
    /\ \A t \in Threads : pc[t] \in {"draw", "returned"} => (guard = "done" /\ ctorRuns = 1)
    /\ os.thread # NoThread => (guard = "done" /\ ctorRuns = 1)

\* C3: the shared RandomLayer is constructed once: one constructor run at
\* most, by one thread at a time; no thread draws, and no OS entropy call
\* is made, before the construction has completed; a completed construction
\* is never repeated or undone.
C3_ConstructedOnce ==
    /\ []C3_Inv
    /\ [][guard = "done" => (guard' = "done" /\ ctorRuns' = ctorRuns)]_vars

C3_Witness ==
    \E t, u \in Threads :
        /\ t # u
        /\ pc[t] = "returned"
        /\ pc[u] = "static"
        /\ ctorRuns = 1

C4_Step ==
    /\ proc = "running"
    /\ (proc' = "fatal") = (fatal' # "none")
    /\ \A t \in Threads :
        /\ Returned(t) =>
              /\ pc[t] = "draw"
              /\ Drew(t) /\ os'.n = SizeofBuf
              /\ proc' = "running"
              /\ ret'[t] \in AllArgs
        /\ (ret'[t] # ret[t] /\ ret'[t] # NoVal) => Returned(t)
        /\ (Drew(t) /\ os'.n # SizeofBuf) =>
              /\ ret'[t] = ret[t] /\ pc'[t] = pc[t]
              /\ (os'.n < 0 \/ platform # "Q_OS_LINUX") => proc' = "fatal"
        /\ (pc[t] = "ctor" /\ ctorRuns' # ctorRuns /\ guard' # "done") =>
              /\ proc' = "fatal"
              /\ pc'[t] = "ctor" /\ ret'[t] = NoVal
        /\ proc' = "fatal" => (pc'[t] = pc[t] /\ ret'[t] = ret[t])

\* C4: a call returns a value only in the step of a draw of its own that
\* read the full SizeofBuf bytes, with the process running; a failed
\* construction or a failed draw ends the process with qFatal and gives the
\* caller no value; a terminated process takes no further step.
C4_ValueOrFatal == [][C4_Step]_vars

C4_Witness ==
    /\ proc = "fatal"
    /\ os.thread \in Threads /\ os.n < 0
    /\ \E u \in Threads : u # os.thread /\ pc[u] = "returned"

C5_Step ==
    platform = "Q_OS_LINUX" =>
    \A t \in Threads : Drew(t) =>
        /\ i[t] < RETRY_MAX
        /\ os'.n = SizeofBuf => (i'[t] = 0 /\ proc' = "running")
        /\ os'.n < 0 =>
              /\ proc' = "fatal" /\ fatal' = "getrandom() error."
              /\ i'[t] = i[t]
        /\ (os'.n \in 0..(SizeofBuf - 1) /\ i[t] + 1 < RETRY_MAX) =>
              /\ proc' = "running"
              /\ i'[t] = i[t] + 1 /\ pc'[t] = "draw"
        /\ (os'.n \in 0..(SizeofBuf - 1) /\ i[t] + 1 = RETRY_MAX) =>
              /\ proc' = "fatal"
              /\ fatal' = "getrandom() failed. Reason: too many retries."

\* C5: on Linux an operator() makes at most RETRY_MAX getrandom attempts: a
\* full read ends it at once, a negative result is fatal at once, a short
\* read is retried, and the RETRY_MAX-th short read in a row is fatal with
\* the "too many retries" message.
C5_RetryPolicy ==
    /\ [](platform = "Q_OS_LINUX" => \A t \in Threads : i[t] <= RETRY_MAX)
    /\ [][C5_Step]_vars

C5_Witness ==
    /\ platform = "Q_OS_LINUX"
    /\ fatal = "getrandom() failed. Reason: too many retries."
    /\ \E t \in Threads : i[t] = RETRY_MAX /\ os.thread = t /\ os.n = 0

C6_Inv ==
    platform = "generic" =>
        /\ ctorRuns <= 1
        /\ m_randDev # "invalid_close"
        /\ (m_randDev = "null" /\ ctorRuns = 1) =>
              (proc = "fatal" /\ fatal = "Failed to open /dev/urandom.")
        /\ guard = "done" => m_randDev \in {"open", "closed"}
        /\ (m_randDev = "closed") = (proc = "exited" /\ guard = "done")
        /\ \A t \in Threads : i[t] = 0

C6_Step ==
    platform = "generic" =>
        /\ \A t \in Threads : Drew(t) =>
              /\ m_randDev = "open" /\ m_randDev' = "open"
              /\ os'.n = SizeofBuf => proc' = "running"
              /\ os'.n # SizeofBuf =>
                    (proc' = "fatal" /\ fatal' = "Read /dev/urandom error.")
        /\ m_randDev' # m_randDev =>
              \/ m_randDev = "null" /\ ctorRuns' = ctorRuns + 1
              \/ m_randDev = "open" /\ m_randDev' = "closed" /\ proc' = "exited"

C7_Inv ==
    platform = "Q_OS_WIN" =>
        /\ (m_processPrng = "null" /\ ctorRuns >= 1) =>
              (proc = "fatal" /\ fatal = "Failed to load ProcessPrng().")
        /\ \A t \in Threads :
              /\ pc[t] = "draw" => m_processPrng = "resolved"
              /\ i[t] = 0

C7_Step ==
    platform = "Q_OS_WIN" =>
        \A t \in Threads : Drew(t) =>
            /\ m_processPrng = "resolved"
            /\ os'.n = SizeofBuf => proc' = "running"
            /\ os'.n # SizeofBuf =>
                  (proc' = "fatal" /\ fatal' = "ProcessPrng() failed.")

\* C7: on Windows a constructor that cannot resolve ProcessPrng is fatal,
\* so every draw goes through the resolved pointer; a draw is one call of
\* it, and a non-success return is fatal without a retry.
C7_WindowsFailures == []C7_Inv /\ [][C7_Step]_vars

C7_Witness ==
    /\ platform = "Q_OS_WIN"
    /\ fatal = "ProcessPrng() failed."
    /\ m_processPrng = "resolved"

Preimage(a, b, v) == {raw \in AllArgs : RandReturn(a, b, raw) = v}

\* C8: for each range [min, max] every value of the range is the result of
\* the same number (at least one) of raw values, every other raw value is
\* rejected, and the value a call returned is the image of the raw value it
\* drew.
C8_NoModuloBias ==
    \A t \in Threads : pc[t] # "idle" =>
        /\ \A v \in min[t]..max[t] :
              /\ Cardinality(Preimage(min[t], max[t], v)) >= 1
              /\ Cardinality(Preimage(min[t], max[t], v))
                    = Cardinality(Preimage(min[t], max[t], min[t]))
        /\ \A raw \in AllArgs :
              RandReturn(min[t], max[t], raw) \in ({NoVal} \cup (min[t]..max[t]))
        /\ (pc[t] = "returned" /\ os.thread = t) =>
              os.val \in Preimage(min[t], max[t], ret[t])

C8_Witness ==
    /\ pc[1] = "returned"
    /\ min[1] = 1 /\ max[1] = 2 /\ ret[1] = 2
    /\ os.thread = 1 /\ os.val = 1
    /\ Cardinality(Preimage(1, 2, NoVal)) >= 1

\* C9: every call to rand eventually returns a value or the process is
\* terminated; no call stays inside rand forever.
C9_EveryCallEnds ==
    \A t \in Threads : InCall(t) ~> (pc[t] = "returned" \/ proc # "running")

C9_Witness ==
    /\ platform = "Q_OS_LINUX"
    /\ \E t, u \in Threads :
          /\ pc[t] = "draw" /\ i[t] = RETRY_MAX - 1
          /\ pc[u] = "returned"

C10_Step ==
    platform = "Q_OS_LINUX" =>
    \A t \in Threads : Drew(t) =>
        /\ os'.val # NoVal => (os'.n = SizeofBuf /\ os'.val = os'.data)
        /\ os'.n # SizeofBuf =>
              (os'.val = NoVal /\ ret'[t] = ret[t] /\ pc'[t] = pc[t])
        /\ Returned(t) =>
              (os'.n = SizeofBuf /\ ret'[t] = RandReturn(min[t], max[t], os'.data))

\* C10: on Linux the value operator() returns is the content of the buffer
\* that one getrandom call filled completely; a short read gives operator()
\* no value and the caller no result.
C10_FullReadOnly == [][C10_Step]_vars

C10_Witness ==
    /\ platform = "Q_OS_LINUX"
    /\ pc[1] = "returned"
    /\ os.n = SizeofBuf /\ os.val = os.data /\ os.data = RawMax - 1
    /\ min[1] = 0 /\ max[1] = RawMax /\ ret[1] = RawMax - 1

====
